---------------------------- MODULE Spec2Model ----------------------------
(***************************************************************************)
(* Model of the trail map of the mountain tracker                          *)
(* (frontend/src/components/TrailMap.tsx): the certification-point keyword *)
(* extraction (extractCertKeywords), the course matching                   *)
(* (matchesCertPoint), the TrailMap component's fetchTrailData effect and  *)
(* its course selection state, and the NationalParkMap view derived from   *)
(* that state; and of the mountain list (services/mountainService.ts,      *)
(* hooks/useMountains.ts): getMountains and the pages of the infinite      *)
(* query, and the filter store of the list page (filters and page).        *)
(*                                                                         *)
(* A JavaScript string is a sequence of UTF-16 code units (naturals), so   *)
(* that length, slice, replace, split and includes are computed, not       *)
(* assumed.  An optional string (string | undefined) is a sequence of      *)
(* length 0 (undefined) or 1 (the string).                                 *)
(***************************************************************************)
EXTENDS Naturals, Sequences, FiniteSets

VARIABLES
    call,            \* the function call, query or store under test
    props,           \* TrailMap props: blackyakId, certificationPoint
    npTrailData,     \* useState<NationalParkTrailData | null>
    trailData,       \* useState<TrailData | null>
    dataSource,      \* useState<DataSource>
    loading,         \* useState(true)
    error,           \* useState<string | null>
    selectedCourses, \* useState<Set<number>>
    runs,            \* the fetchTrailData runs started so far, each with its position
    last             \* the last step taken (history)

vars == <<call, props, npTrailData, trailData, dataSource, loading, error,
          selectedCourses, runs, last>>

---------------------------------------------------------------------------
(* Code units.  Hangul syllables are given by their code point.            *)

SP == 32          \* ' '
COMMA == 44       \* ','
SLASH == 47       \* '/'
IDEO_SP == 12288  \* U+3000 ideographic space, a member of \s
UPPER_A == 65     \* 'A'
LOWER_A == 97     \* 'a'
H_JEONG == 51221    \* U+C815
H_SANG == 49345     \* U+C0C1
H_SEOK == 49437     \* U+C11D
H_IN == 51064       \* U+C778
H_JEUNG == 51613    \* U+C99D
H_BONG == 48393     \* U+BD09
H_SAN == 49328      \* U+C0B0
H_DAE == 45824      \* U+B300
H_CHEON == 52380    \* U+CC9C
H_WANG == 50773     \* U+C655

---------------------------------------------------------------------------
(* JavaScript string and array primitives.                                 *)

\* WhiteSpace and LineTerminator code units: the class \s, and what trim() strips
IsWhiteSpace(c) ==
    \/ c \in {9, 10, 11, 12, 13, SP, 160, 5760, 8232, 8233, 8239, 8287, IDEO_SP, 65279}
    \/ c \in 8192..8202

\* the character class [\s,/] of the split pattern
IsSeparator(c) == IsWhiteSpace(c) \/ c = COMMA \/ c = SLASH

\* String.prototype.slice(from) for 0 <= from
DropFirst(s, n) == SubSeq(s, n + 1, Len(s))

\* does pattern pat occur in s at (0-based) offset i
OccursAt(s, pat, i) ==
    /\ i + Len(pat) <= Len(s)
    /\ SubSeq(s, i + 1, i + Len(pat)) = pat

\* as ReplaceAll, had the pattern been built without the 'g' flag: the first
\* occurrence only
RECURSIVE ReplaceAll_First(_, _, _)
ReplaceAll_First(s, pat, rep) ==
    IF Len(s) < Len(pat) THEN s
    ELSE IF OccursAt(s, pat, 0)
         THEN rep \o DropFirst(s, Len(pat))
         ELSE <<Head(s)>> \o ReplaceAll_First(Tail(s), pat, rep)

\* String.prototype.replace(new RegExp(pat, 'g'), rep) for a literal, non-empty
\* pattern: a left-to-right scan replacing non-overlapping occurrences
RECURSIVE ReplaceAll(_, _, _)
ReplaceAll(s, pat, rep) ==
    IF Len(s) < Len(pat) THEN s
    ELSE IF OccursAt(s, pat, 0)
         THEN rep \o ReplaceAll(DropFirst(s, Len(pat)), pat, rep)
         ELSE <<Head(s)>> \o ReplaceAll(Tail(s), pat, rep)

\* String.prototype.trim()
RECURSIVE TrimStart(_)
TrimStart(s) ==
    IF s # <<>> /\ IsWhiteSpace(Head(s)) THEN TrimStart(Tail(s)) ELSE s

RECURSIVE TrimEnd(_)
TrimEnd(s) ==
    IF s # <<>> /\ IsWhiteSpace(s[Len(s)])
    THEN TrimEnd(SubSeq(s, 1, Len(s) - 1))
    ELSE s

Trim(s) == TrimEnd(TrimStart(s))

\* String.prototype.split(/[\s,/]+/): the pieces between maximal separator
\* runs; a leading or trailing run yields an empty first or last piece, and
\* the empty string yields one empty piece
RECURSIVE SplitFrom(_, _)
SplitFrom(s, cur) ==
    IF s = <<>> THEN <<cur>>
    ELSE IF IsSeparator(Head(s))
         THEN IF Len(s) >= 2 /\ IsSeparator(s[2])
              THEN SplitFrom(Tail(s), cur)
              ELSE <<cur>> \o SplitFrom(Tail(s), <<>>)
         ELSE SplitFrom(Tail(s), Append(cur, Head(s)))

Split(s) == SplitFrom(s, <<>>)

\* Array.prototype.map(w => w.trim())
MapTrim(ws) == [i \in 1..Len(ws) |-> Trim(ws[i])]

\* as FilterMinLength, had the filter kept every non-empty token
RECURSIVE FilterMinLength_One(_)
FilterMinLength_One(ws) ==
    IF ws = <<>> THEN <<>>
    ELSE IF Len(Head(ws)) >= 1
         THEN <<Head(ws)>> \o FilterMinLength_One(Tail(ws))
         ELSE FilterMinLength_One(Tail(ws))

\* Array.prototype.filter(w => w.length >= 2)
RECURSIVE FilterMinLength(_)
FilterMinLength(ws) ==
    IF ws = <<>> THEN <<>>
    ELSE IF Len(Head(ws)) >= 2
         THEN <<Head(ws)>> \o FilterMinLength(Tail(ws))
         ELSE FilterMinLength(Tail(ws))

\* Array.prototype.includes on an array of strings
ArrayIncludes(arr, x) == \E i \in 1..Len(arr) : arr[i] = x

\* as SetAdd, had the keywords been collected in an array (push) instead of a Set
SetAdd_Always(arr, x) == Append(arr, x)

\* Set.prototype.add followed by Array.from: insertion order, no duplicate
SetAdd(arr, x) == IF ArrayIncludes(arr, x) THEN arr ELSE Append(arr, x)

\* String.prototype.toLowerCase() on one code unit (ASCII letters; Hangul,
\* digits, punctuation and spaces have no case)
LowerUnit(c) == IF c \in 65..90 THEN c + 32 ELSE c

ToLowerCase(s) == [i \in 1..Len(s) |-> LowerUnit(s[i])]

\* String.prototype.includes(k): a left-to-right search
RECURSIVE StringIncludes(_, _)
StringIncludes(text, k) ==
    IF Len(text) < Len(k) THEN FALSE
    ELSE IF OccursAt(text, k, 0) THEN TRUE
    ELSE StringIncludes(Tail(text), k)

---------------------------------------------------------------------------
(* Optional strings: string | undefined.                                   *)

Undefined == <<>>
Some(s) == <<s>>

\* !certPoint: undefined and the empty string are falsy
IsFalsy(opt) == opt = Undefined \/ opt[1] = <<>>

\* feature.properties.name || ''
OrEmpty(opt) == IF IsFalsy(opt) THEN <<>> ELSE opt[1]

---------------------------------------------------------------------------
(* extractCertKeywords                                                     *)

\* const stopWords = ['정상석', '/', '인증']
stopWords == << <<H_JEONG, H_SANG, H_SEOK>>, <<SLASH>>, <<H_IN, H_JEUNG>> >>

\* the keyword '정상' that is always appended
SummitKeyword == <<H_JEONG, H_SANG>>

\* for (const word of stopWords) cleaned = cleaned.replace(new RegExp(word, 'g'), ' ')
RECURSIVE RemoveWords(_, _)
RemoveWords(cleaned, words) ==
    IF words = <<>> THEN cleaned
    ELSE RemoveWords(ReplaceAll(cleaned, Head(words), <<SP>>), Tail(words))

CleanLabel(certPoint) == RemoveWords(certPoint, stopWords)

\* cleaned.split(/[\s,/]+/).map(w => w.trim()).filter(w => w.length >= 2)
baseKeywords(cleaned) == FilterMinLength(MapTrim(Split(cleaned)))

\* as HasPeakSuffix, had the character class been [봉산]
HasPeakSuffix_NoDae(kw) == kw # <<>> /\ kw[Len(kw)] \in {H_BONG, H_SAN}

\* /[봉산대]$/.test(kw)
HasPeakSuffix(kw) == kw # <<>> /\ kw[Len(kw)] \in {H_BONG, H_SAN, H_DAE}

\* the body of the expansion loop for one keyword
ExpandOne(acc, kw) ==
    LET added == SetAdd(acc, kw)
        shortened == SubSeq(kw, 1, Len(kw) - 1)
    IN  IF Len(kw) >= 3 /\ HasPeakSuffix(kw)
        THEN IF Len(shortened) >= 2 THEN SetAdd(added, shortened) ELSE added
        ELSE added

\* for (const kw of baseKeywords) { ... }; Array.from(expandedKeywords)
RECURSIVE ExpandFrom(_, _)
ExpandFrom(acc, kws) ==
    IF kws = <<>> THEN acc
    ELSE ExpandFrom(ExpandOne(acc, Head(kws)), Tail(kws))

expandedKeywords(base) == ExpandFrom(<<>>, base)

\* as PushSummit, had '정상' not been appended
PushSummit_Never(keywords) == keywords

\* if (!keywords.includes('정상')) keywords.push('정상')
PushSummit(keywords) ==
    IF ~ArrayIncludes(keywords, SummitKeyword)
    THEN Append(keywords, SummitKeyword)
    ELSE keywords

\* as extractCertKeywords, without the early return for a falsy label
extractCertKeywords_NoGuard(certPoint) ==
    PushSummit(expandedKeywords(baseKeywords(CleanLabel(OrEmpty(certPoint)))))

\* as extractCertKeywords, had a label without base keyword returned no keyword
extractCertKeywords_EmptyWithoutBase(certPoint) ==
    IF IsFalsy(certPoint) THEN <<>>
    ELSE IF baseKeywords(CleanLabel(certPoint[1])) = <<>> THEN <<>>
    ELSE PushSummit(expandedKeywords(baseKeywords(CleanLabel(certPoint[1]))))

extractCertKeywords(certPoint) ==
    IF IsFalsy(certPoint) THEN <<>>
    ELSE PushSummit(expandedKeywords(baseKeywords(CleanLabel(certPoint[1]))))

---------------------------------------------------------------------------
(* matchesCertPoint                                                        *)

\* as CourseText, had name and detail been concatenated without the space
CourseText_NoSeparator(courseName, detail) == ToLowerCase(courseName \o detail)

\* `${courseName} ${detail}`.toLowerCase()
CourseText(courseName, detail) == ToLowerCase(courseName \o <<SP>> \o detail)

\* keywords.some(kw => text.includes(kw.toLowerCase()))
RECURSIVE SomeIncluded(_, _)
SomeIncluded(keywords, text) ==
    IF keywords = <<>> THEN FALSE
    ELSE IF StringIncludes(text, ToLowerCase(Head(keywords))) THEN TRUE
    ELSE SomeIncluded(Tail(keywords), text)

\* as SomeIncluded, had the keyword not been lower-cased
RECURSIVE SomeIncluded_AsIs(_, _)
SomeIncluded_AsIs(keywords, text) ==
    IF keywords = <<>> THEN FALSE
    ELSE IF StringIncludes(text, Head(keywords)) THEN TRUE
    ELSE SomeIncluded_AsIs(Tail(keywords), text)

\* as matchesCertPoint, comparing case-sensitively
matchesCertPoint_CaseSensitive(courseName, detail, keywords) ==
    IF Len(keywords) = 0 THEN TRUE
    ELSE SomeIncluded_AsIs(keywords, CourseText(courseName, detail))

\* as matchesCertPoint, without the early return for an empty keyword list
matchesCertPoint_NoFailOpen(courseName, detail, keywords) ==
    SomeIncluded(keywords, CourseText(courseName, detail))

matchesCertPoint(courseName, detail, keywords) ==
    IF Len(keywords) = 0 THEN TRUE
    ELSE SomeIncluded(keywords, CourseText(courseName, detail))

---------------------------------------------------------------------------
(* Bounds and input data of the TrailMap model.                            *)

MaxRuns == 2       \* fetchTrailData runs started in one behaviour
MaxCourses == 2    \* features in one national-park payload

Null == <<>>

SeqsUpTo(S, n) == UNION {[1..k -> S] : k \in 0..n}

\* "천왕봉"
LabelCheonwangbong == <<H_CHEON, H_WANG, H_BONG>>
\* "노인봉"
LabelNoinbong == <<45432, H_IN, H_BONG>>

\* "미상봉"
LabelMisangbong == <<48120, H_SANG, H_BONG>>
\* "서석대 정상석/ 인왕봉 정상석"
LabelSeoseokdae ==
    <<49436, H_SEOK, H_DAE, SP, H_JEONG, H_SANG, H_SEOK, SLASH, SP,
      H_IN, H_WANG, H_BONG, SP, H_JEONG, H_SANG, H_SEOK>>

\* certificationPoint?: string
CertPoints ==
    {Undefined, Some(<<>>), Some(LabelCheonwangbong), Some(LabelNoinbong),
     Some(LabelMisangbong), Some(LabelSeoseokdae)}

\* feature.properties of three courses:
\*   "천왕봉 코스" / "지리산 정상 등반로", "둘레길" / "단순 순환로", "천왕 코스" / no detail
CourseSummit ==
    [name |-> Some(<<H_CHEON, H_WANG, H_BONG, SP, 53076, 49828>>),
     detail |-> Some(<<51648, 47532, H_SAN, SP, H_JEONG, H_SANG, SP, 46321, 48152, 47196>>)]
CourseLoop ==
    [name |-> Some(<<46168, 47112, 44600>>),
     detail |-> Some(<<45800, 49692, SP, 49692, 54872, 47196>>)]
CourseCheonwang ==
    [name |-> Some(<<H_CHEON, H_WANG, SP, 53076, 49828>>), detail |-> Undefined]

Courses == {CourseSummit, CourseLoop, CourseCheonwang}

\* three courses named "서석대코스", "인왕봉코스" and "기타코스", with empty details
CoursesSeoseokdae ==
    << [name |-> Some(<<49436, H_SEOK, H_DAE, 53076, 49828>>), detail |-> Some(<<>>)],
       [name |-> Some(<<H_IN, H_WANG, H_BONG, 53076, 49828>>), detail |-> Some(<<>>)],
       [name |-> Some(<<44592, 53440, 53076, 49828>>), detail |-> Some(<<>>)] >>

FeatureLists == SeqsUpTo(Courses, MaxCourses) \cup {CoursesSeoseokdae}

\* blackyakId?: number; 0 stands for an absent (or zero) id, which is falsy
BlackyakIds == 0..1

MountainNames == {"m1", "m2"}

PropsSet ==
    [mountainName : MountainNames, blackyakId : BlackyakIds,
     certificationPoint : CertPoints]

\* what a fetch of /trails/np_<id>.json can produce
NpResponses ==
    [kind : {"error", "notok"}, features : {<<>>}]
        \cup [kind : {"ok"}, features : FeatureLists]

\* what a fetch of /trails/gpx_<id>.json can produce (track: number of points)
GpxResponses ==
    [kind : {"error", "notok"}, track : {0}] \cup [kind : {"ok"}, track : 0..1]

\* what a fetch of /trails/index.json can produce, and whether the mountain is found in it
IndexResponses ==
    [kind : {"error", "notok"}, found : {FALSE}] \cup [kind : {"ok"}, found : BOOLEAN]

\* what a fetch of /trails/<mnt_code>.json can produce
TrailResponses == [kind : {"error", "notok", "ok"}]

---------------------------------------------------------------------------
(* The selection policy of fetchTrailData and the NationalParkMap view.    *)


\* as FeatureMatches, had only the detail been handed to matchesCertPoint
FeatureMatches_DetailOnly(feature, keywords) ==
    matchesCertPoint(<<>>, OrEmpty(feature.detail), keywords)

FeatureMatches(feature, keywords) ==
    matchesCertPoint(OrEmpty(feature.name), OrEmpty(feature.detail), keywords)

\* npData.features.forEach((feature, idx) => { if (matches) matchingIndices.push(idx) })
matchingIndices(features, keywords) ==
    {idx \in 0..(Len(features) - 1) : FeatureMatches(features[idx + 1], keywords)}

\* new Set(npData.features.map((_, i) => i))
AllIndices(features) == 0..(Len(features) - 1)

\* as DefaultSelection, had every course always been selected
DefaultSelection_All(features, certificationPoint) == AllIndices(features)

\* as DefaultSelection, without the fallback to all courses
DefaultSelection_NoFallback(features, certificationPoint) ==
    matchingIndices(features, extractCertKeywords(certificationPoint))

\* as DefaultSelection, had the new indices been added to the previous set
DefaultSelection_KeepPrevious(features, certificationPoint) ==
    LET matching == matchingIndices(features, extractCertKeywords(certificationPoint))
    IN  selectedCourses
            \cup (IF Cardinality(matching) > 0 THEN matching ELSE AllIndices(features))

\* the selected set installed when national-park data is loaded
DefaultSelection(features, certificationPoint) ==
    LET matching == matchingIndices(features, extractCertKeywords(certificationPoint))
    IN  IF Cardinality(matching) > 0 THEN matching ELSE AllIndices(features)

\* which of the component's four returns renders
View ==
    IF loading THEN "loading"
    ELSE IF error # Null \/ (trailData = Null /\ npTrailData = Null) THEN "error"
    ELSE IF dataSource = "national_park" /\ npTrailData # Null THEN "national_park"
    ELSE IF dataSource = "forest_service" /\ trailData # Null THEN "forest_service"
    ELSE "null"

\* NationalParkMap: data.features
Features == IF npTrailData = Null THEN <<>> ELSE npTrailData[1].features

\* const certKeywords = extractCertKeywords(certificationPoint)
certKeywords == extractCertKeywords(props.certificationPoint)

\* const courseMatches = data.features.map(...): the indices whose entry is true
courseMatches == matchingIndices(Features, certKeywords)

matchingCount == Cardinality(courseMatches)

\* as ChipVisible, had the chip of every course been rendered
ChipVisible_All(idx) == idx \in AllIndices(Features)

\* a chip is rendered unless (matchingCount > 0 && !isMatch)
ChipVisible(idx) ==
    /\ idx \in AllIndices(Features)
    /\ ~(matchingCount > 0 /\ idx \notin courseMatches)

\* the select-all and clear-all buttons are rendered when matchingCount === 0
BulkButtonsVisible == matchingCount = 0

\* the hidden-courses note: matchingCount > 0 && matchingCount < data.features.length
HiddenNoteShown == matchingCount > 0 /\ matchingCount < Len(Features)

\* as AdvisoryShown, had the test been on the selected set instead of the matches
AdvisoryShown_NoneSelected ==
    Cardinality(selectedCourses) = 0 /\ ~IsFalsy(props.certificationPoint)

\* the zero-match advisory: matchingCount === 0 && certificationPoint
AdvisoryShown == matchingCount = 0 /\ ~IsFalsy(props.certificationPoint)

\* a course is drawn on the map when selectedCourses.has(idx)
Drawn(idx) == idx \in AllIndices(Features) /\ idx \in selectedCourses

\* as toggleCourse, had the updater only ever added the index
toggleCourse_AddOnly(prev, index) == prev \cup {index}

\* toggleCourse's updater
toggleCourse(prev, index) ==
    IF index \in prev THEN prev \ {index} ELSE prev \cup {index}

---------------------------------------------------------------------------
(* The TrailMap component.                                                 *)
(*                                                                         *)
(* The effect has no cleanup, so a run started for earlier props keeps     *)
(* running and writes the state when its fetch settles.  A run advances at *)
(* each await (a fetch and the reading of its body are one step: nothing   *)
(* is written between them); the state updates that follow an await are    *)
(* applied together.                                                       *)

NoCall == [fn |-> "none"]

NewRun(p) ==
    [pc |-> IF p.blackyakId # 0 THEN "np" ELSE "index",
     certificationPoint |-> p.certificationPoint]

\* useState initial values, and the effect's first fetchTrailData run started
Init ==
    /\ call = NoCall
    /\ props \in PropsSet
    /\ npTrailData = Null
    /\ trailData = Null
    /\ dataSource = "null"
    /\ loading = TRUE
    /\ error = Null
    /\ selectedCourses = {}
    /\ runs = <<NewRun(props)>>
    /\ last = [op |-> "mount", run |-> 1]

Finish(r) == [runs EXCEPT ![r].pc = "done"]

\* as PropsChange, had the reset left out setDataSource(null)
PropsChange_KeepsDataSource(p) ==
    /\ Len(runs) < MaxRuns
    /\ p # props
    /\ props' = p
    /\ loading' = TRUE
    /\ error' = Null
    /\ trailData' = Null
    /\ npTrailData' = Null
    /\ runs' = Append(runs, NewRun(p))
    /\ last' = [op |-> "propsChange", run |-> Len(runs) + 1]
    /\ UNCHANGED <<call, dataSource, selectedCourses>>

\* a prop among [mountainName, blackyakId, certificationPoint] changes: the
\* effect runs again and fetchTrailData resets the state before its first await
PropsChange(p) ==
    /\ Len(runs) < MaxRuns
    /\ p # props
    /\ props' = p
    /\ loading' = TRUE
    /\ error' = Null
    /\ trailData' = Null
    /\ npTrailData' = Null
    /\ dataSource' = "null"
    /\ runs' = Append(runs, NewRun(p))
    /\ last' = [op |-> "propsChange", run |-> Len(runs) + 1]
    /\ UNCHANGED <<call, selectedCourses>>

\* as NpLoaded, had the load left the selected set as it was
NpLoaded_KeepsSelection(r, resp) ==
    /\ runs[r].pc = "np"
    /\ resp.kind = "ok" /\ Len(resp.features) > 0
    /\ npTrailData' = <<[features |-> resp.features]>>
    /\ dataSource' = "national_park"
    /\ loading' = FALSE
    /\ runs' = Finish(r)
    /\ last' = [op |-> "npLoaded", run |-> r]
    /\ UNCHANGED <<call, props, trailData, error, selectedCourses>>

\* run r's fetch of np_<id>.json settles with national-park data
NpLoaded(r, resp) ==
    /\ runs[r].pc = "np"
    /\ resp.kind = "ok" /\ Len(resp.features) > 0
    /\ npTrailData' = <<[features |-> resp.features]>>
    /\ dataSource' = "national_park"
    /\ selectedCourses' = DefaultSelection(resp.features, runs[r].certificationPoint)
    /\ loading' = FALSE
    /\ runs' = Finish(r)
    /\ last' = [op |-> "npLoaded", run |-> r]
    /\ UNCHANGED <<call, props, trailData, error>>

\* as NpMissing, without the inner try/catch: a failed fetch reaches the outer catch
NpMissing_Throws(r, resp) ==
    /\ runs[r].pc = "np"
    /\ ~(resp.kind = "ok" /\ Len(resp.features) > 0)
    /\ error' = IF resp.kind = "error" THEN <<"fetch failed">> ELSE error
    /\ loading' = IF resp.kind = "error" THEN FALSE ELSE loading
    /\ runs' = [runs EXCEPT ![r].pc = IF resp.kind = "error" THEN "done" ELSE "gpx"]
    /\ last' = [op |-> "npMissing", run |-> r]
    /\ UNCHANGED <<call, props, npTrailData, trailData, dataSource, selectedCourses>>

\* run r's fetch of np_<id>.json fails, is not OK or has no feature
NpMissing(r, resp) ==
    /\ runs[r].pc = "np"
    /\ ~(resp.kind = "ok" /\ Len(resp.features) > 0)
    /\ runs' = [runs EXCEPT ![r].pc = "gpx"]
    /\ last' = [op |-> "npMissing", run |-> r]
    /\ UNCHANGED <<call, props, npTrailData, trailData, dataSource, loading,
                   error, selectedCourses>>

\* as GpxLoaded, had the GPX path returned without setLoading(false) and
\* outside the try block whose finally does it
GpxLoaded_StaysLoading(r, resp) ==
    /\ runs[r].pc = "gpx"
    /\ resp.kind = "ok" /\ resp.track > 0
    /\ trailData' = <<[from |-> "gpx", run |-> r]>>
    /\ dataSource' = "forest_service"
    /\ runs' = Finish(r)
    /\ last' = [op |-> "gpxLoaded", run |-> r]
    /\ UNCHANGED <<call, props, npTrailData, error, selectedCourses, loading>>

\* run r's fetch of gpx_<id>.json settles with a non-empty track
GpxLoaded(r, resp) ==
    /\ runs[r].pc = "gpx"
    /\ resp.kind = "ok" /\ resp.track > 0
    /\ trailData' = <<[from |-> "gpx", run |-> r]>>
    /\ dataSource' = "forest_service"
    /\ loading' = FALSE
    /\ runs' = Finish(r)
    /\ last' = [op |-> "gpxLoaded", run |-> r]
    /\ UNCHANGED <<call, props, npTrailData, error, selectedCourses>>

GpxMissing(r, resp) ==
    /\ runs[r].pc = "gpx"
    /\ ~(resp.kind = "ok" /\ resp.track > 0)
    /\ runs' = [runs EXCEPT ![r].pc = "index"]
    /\ last' = [op |-> "gpxMissing", run |-> r]
    /\ UNCHANGED <<call, props, npTrailData, trailData, dataSource, loading,
                   error, selectedCourses>>

\* run r's fetch of index.json settles and the mountain is found in it
IndexFound(r, resp) ==
    /\ runs[r].pc = "index"
    /\ resp.kind = "ok" /\ resp.found
    /\ runs' = [runs EXCEPT ![r].pc = "trail"]
    /\ last' = [op |-> "indexFound", run |-> r]
    /\ UNCHANGED <<call, props, npTrailData, trailData, dataSource, loading,
                   error, selectedCourses>>

\* the index cannot be loaded (throw, caught) or does not list the mountain
IndexFailed(r, resp) ==
    /\ runs[r].pc = "index"
    /\ ~(resp.kind = "ok" /\ resp.found)
    /\ error' = <<IF resp.kind = "ok" THEN "no trail data"
                  ELSE IF resp.kind = "notok" THEN "index not ok"
                  ELSE "fetch failed">>
    /\ loading' = FALSE
    /\ runs' = Finish(r)
    /\ last' = [op |-> "indexFailed", run |-> r]
    /\ UNCHANGED <<call, props, npTrailData, trailData, dataSource, selectedCourses>>

\* run r's fetch of <mnt_code>.json settles with forest-service data
TrailLoaded(r, resp) ==
    /\ runs[r].pc = "trail"
    /\ resp.kind = "ok"
    /\ trailData' = <<[from |-> "forest", run |-> r]>>
    /\ dataSource' = "forest_service"
    /\ loading' = FALSE
    /\ runs' = Finish(r)
    /\ last' = [op |-> "trailLoaded", run |-> r]
    /\ UNCHANGED <<call, props, npTrailData, error, selectedCourses>>

TrailFailed(r, resp) ==
    /\ runs[r].pc = "trail"
    /\ resp.kind # "ok"
    /\ error' = <<IF resp.kind = "notok" THEN "trail not ok" ELSE "fetch failed">>
    /\ loading' = FALSE
    /\ runs' = Finish(r)
    /\ last' = [op |-> "trailFailed", run |-> r]
    /\ UNCHANGED <<call, props, npTrailData, trailData, dataSource, selectedCourses>>

\* the chip of course idx is on screen: onClick={() => toggleCourse(idx)}
CanToggle(idx) == View = "national_park" /\ ChipVisible(idx)

\* the select-all and clear-all buttons are on screen
CanSelectAll == View = "national_park" /\ BulkButtonsVisible

\* selectAllCourses' new state
selectAllCourses ==
    IF npTrailData # Null THEN AllIndices(npTrailData[1].features)
    ELSE selectedCourses

\* the user clicks the chip of course idx
ClickChip(idx) ==
    /\ CanToggle(idx)
    /\ selectedCourses' = toggleCourse(selectedCourses, idx)
    /\ last' = [op |-> "toggleCourse", run |-> 0]
    /\ UNCHANGED <<call, props, npTrailData, trailData, dataSource, loading,
                   error, runs>>

\* the user clicks "select all"
ClickSelectAll ==
    /\ CanSelectAll
    /\ selectedCourses' = selectAllCourses
    /\ last' = [op |-> "selectAllCourses", run |-> 0]
    /\ UNCHANGED <<call, props, npTrailData, trailData, dataSource, loading,
                   error, runs>>

\* the user clicks "clear all"
ClickClearAll ==
    /\ CanSelectAll
    /\ selectedCourses' = {}
    /\ last' = [op |-> "clearAllCourses", run |-> 0]
    /\ UNCHANGED <<call, props, npTrailData, trailData, dataSource, loading,
                   error, runs>>

Next ==
    \/ \E p \in PropsSet : PropsChange(p)
    \/ \E r \in 1..Len(runs), resp \in NpResponses : NpLoaded(r, resp)
    \/ \E r \in 1..Len(runs), resp \in NpResponses : NpMissing(r, resp)
    \/ \E r \in 1..Len(runs), resp \in GpxResponses : GpxLoaded(r, resp)
    \/ \E r \in 1..Len(runs), resp \in GpxResponses : GpxMissing(r, resp)
    \/ \E r \in 1..Len(runs), resp \in IndexResponses : IndexFound(r, resp)
    \/ \E r \in 1..Len(runs), resp \in IndexResponses : IndexFailed(r, resp)
    \/ \E r \in 1..Len(runs), resp \in TrailResponses : TrailLoaded(r, resp)
    \/ \E r \in 1..Len(runs), resp \in TrailResponses : TrailFailed(r, resp)
    \/ \E idx \in AllIndices(Features) : ClickChip(idx)
    \/ ClickSelectAll
    \/ ClickClearAll

Spec == Init /\ [][Next]_vars

\* the pending fetch of run r settles, one way or another
Settle(r) ==
    /\ r \in 1..Len(runs)
    /\ \/ \E resp \in NpResponses : NpLoaded(r, resp) \/ NpMissing(r, resp)
       \/ \E resp \in GpxResponses : GpxLoaded(r, resp) \/ GpxMissing(r, resp)
       \/ \E resp \in IndexResponses : IndexFound(r, resp) \/ IndexFailed(r, resp)
       \/ \E resp \in TrailResponses : TrailLoaded(r, resp) \/ TrailFailed(r, resp)

\* the component when every network request eventually settles: each await
\* of a run resumes once its promise is fulfilled or rejected
SpecSettling == Init /\ [][Next]_vars /\ \A r \in 1..MaxRuns : WF_vars(Settle(r))

---------------------------------------------------------------------------
(* Calls of the two pure functions, on inputs drawn from bounded sets.     *)

MaxLabelLen == 4     \* code units of an enumerated certification label
MaxTextLen == 1      \* code units of an enumerated course name or detail
MaxKeywordLen == 1   \* code units of an enumerated keyword
MaxKeywords == 2     \* keywords of an enumerated keyword list

\* the suffixes 산 and 대 occur in the example labels
LabelAlphabet ==
    {H_JEONG, H_SANG, H_SEOK, H_IN, H_JEUNG, SLASH, SP, COMMA, H_BONG, H_CHEON}

\* "지리산 천왕봉"
LabelJirisan == <<51648, 47532, H_SAN, SP, H_CHEON, H_WANG, H_BONG>>
\* "A봉" preceded by a tab and followed by an ideographic space and "ab"
LabelMixedSpace == <<9, UPPER_A, H_BONG, IDEO_SP, LOWER_A, 98>>

ExampleLabels ==
    {LabelCheonwangbong, LabelNoinbong, LabelJirisan, LabelSeoseokdae,
     LabelMixedSpace}

LabelInputs ==
    {Undefined}
        \cup {Some(s) : s \in SeqsUpTo(LabelAlphabet, MaxLabelLen) \cup ExampleLabels}

\* the component is not involved in a call of a pure function
ComponentIdle ==
    /\ props = [mountainName |-> "m1", blackyakId |-> 0,
                certificationPoint |-> Undefined]
    /\ npTrailData = Null
    /\ trailData = Null
    /\ dataSource = "null"
    /\ loading = TRUE
    /\ error = Null
    /\ selectedCourses = {}
    /\ runs = <<>>
    /\ last = [op |-> "none", run |-> 0]

componentVars ==
    <<props, npTrailData, trailData, dataSource, loading, error,
      selectedCourses, runs, last>>

InitKeywords ==
    /\ call \in [fn : {"extractCertKeywords"}, certPoint : LabelInputs,
                 done : {FALSE}, ret : {<<>>}]
    /\ ComponentIdle

CallExtractCertKeywords ==
    /\ call.fn = "extractCertKeywords"
    /\ ~call.done
    /\ call' = [call EXCEPT !.done = TRUE,
                            !.ret = extractCertKeywords(call.certPoint)]
    /\ UNCHANGED componentVars

NextKeywords == CallExtractCertKeywords

SpecKeywords == InitKeywords /\ [][NextKeywords]_vars

MatchAlphabet == {UPPER_A, LOWER_A, SP}

\* "천왕봉 코스", "지리산 정상 등반로", {"천왕봉", "천왕", "정상"}
ExampleMatch ==
    [fn |-> "matchesCertPoint",
     courseName |-> OrEmpty(CourseSummit.name),
     detail |-> OrEmpty(CourseSummit.detail),
     keywords |-> <<LabelCheonwangbong, <<H_CHEON, H_WANG>>, SummitKeyword>>,
     done |-> FALSE, ret |-> FALSE]

\* "둘레길", "단순 순환로", {"천왕봉", "천왕"}
ExampleNoMatch ==
    [fn |-> "matchesCertPoint",
     courseName |-> OrEmpty(CourseLoop.name),
     detail |-> OrEmpty(CourseLoop.detail),
     keywords |-> <<LabelCheonwangbong, <<H_CHEON, H_WANG>>>>,
     done |-> FALSE, ret |-> FALSE]

\* "a b" against "A" / "B": matches only across the separator
ExampleAcross ==
    [fn |-> "matchesCertPoint",
     courseName |-> <<UPPER_A>>, detail |-> <<66>>,
     keywords |-> <<<<98, LOWER_A>>, <<LOWER_A, SP, 98>>>>,
     done |-> FALSE, ret |-> FALSE]

InitMatches ==
    /\ call \in
          [fn : {"matchesCertPoint"},
           courseName : SeqsUpTo(MatchAlphabet, MaxTextLen),
           detail : SeqsUpTo(MatchAlphabet, MaxTextLen),
           keywords : SeqsUpTo(SeqsUpTo(MatchAlphabet, MaxKeywordLen), MaxKeywords),
           done : {FALSE}, ret : {FALSE}]
          \cup {ExampleMatch, ExampleNoMatch, ExampleAcross}
    /\ ComponentIdle

CallMatchesCertPoint ==
    /\ call.fn = "matchesCertPoint"
    /\ ~call.done
    /\ call' = [call EXCEPT !.done = TRUE,
                            !.ret = matchesCertPoint(call.courseName, call.detail,
                                                     call.keywords)]
    /\ UNCHANGED componentVars

NextMatches == CallMatchesCertPoint

SpecMatches == InitMatches /\ [][NextMatches]_vars

---------------------------------------------------------------------------
(* The two functions applied one after the other, as fetchTrailData and    *)
(* NationalParkMap do: the keywords of a label are extracted and a course  *)
(* is matched against them.  The keyword array is handed to                *)
(* matchesCertPoint in any order.                                          *)

\* "천왕봉 천왕봉": a token repeated
LabelRepeated == LabelCheonwangbong \o <<SP>> \o LabelCheonwangbong
\* "천왕봉 천왕": the stripped variant of one token is another token
LabelVariantAgain == LabelCheonwangbong \o <<SP, H_CHEON, H_WANG>>
\* "정상 천왕봉": the label contains the summit keyword
LabelWithSummit == <<H_JEONG, H_SANG, SP>> \o LabelCheonwangbong

\* "정상석 / 인증": boilerplate and separators only
LabelBoilerplate == <<H_JEONG, H_SANG, H_SEOK, SP, SLASH, SP, H_IN, H_JEUNG>>

\* labels over 'A', 'b' and ' ', and the example labels
PipeLabels ==
    {Undefined}
        \cup {Some(s) : s \in SeqsUpTo({UPPER_A, 98, SP}, MaxLabelLen)
                              \cup {LabelCheonwangbong, LabelSeoseokdae, LabelRepeated,
                                    LabelVariantAgain, LabelWithSummit, LabelBoilerplate}}

\* names and details over 'a' and 'b', and the example courses
PipeCourses ==
    [name : SeqsUpTo({LOWER_A, 98}, MaxTextLen),
     detail : SeqsUpTo({LOWER_A, 98}, MaxTextLen)]
        \cup {[name |-> OrEmpty(c.name), detail |-> OrEmpty(c.detail)] : c \in Courses}

\* the orders an array of n elements can be put in
Orders(n) == {p \in [1..n -> 1..n] : \A i, j \in 1..n : p[i] = p[j] => i = j}

Reordered(arr, p) == [i \in 1..Len(arr) |-> arr[p[i]]]

InitPipeline ==
    /\ call \in {[fn |-> "pipeline", pc |-> "extract", certPoint |-> l,
                  courseName |-> c.name, detail |-> c.detail,
                  keywords |-> <<>>, passed |-> <<>>, ret |-> FALSE] :
                    l \in PipeLabels, c \in PipeCourses}
    /\ ComponentIdle

\* const keywords = extractCertKeywords(certificationPoint)
PipeExtract ==
    /\ call.fn = "pipeline"
    /\ call.pc = "extract"
    /\ call' = [call EXCEPT !.pc = "match",
                            !.keywords = extractCertKeywords(call.certPoint)]
    /\ UNCHANGED componentVars

\* matchesCertPoint(name, detail, keywords), the keywords in the order p
PipeMatch(p) ==
    /\ call.fn = "pipeline"
    /\ call.pc = "match"
    /\ call' = [call EXCEPT
                  !.pc = "done",
                  !.passed = Reordered(call.keywords, p),
                  !.ret = matchesCertPoint(call.courseName, call.detail,
                                           Reordered(call.keywords, p))]
    /\ UNCHANGED componentVars

NextPipeline ==
    \/ PipeExtract
    \/ \E p \in Orders(Len(call.keywords)) : PipeMatch(p)

SpecPipeline == InitPipeline /\ [][NextPipeline]_vars

---------------------------------------------------------------------------
(* The mountain list (services/mountainService.ts, hooks/useMountains.ts): *)
(* getMountains against the mountains table, called page by page by the   *)
(* infinite query of the list page.  The table does not change while the   *)
(* pages are fetched.                                                      *)

MaxRows == 4    \* rows of the mountains table
MaxLimit == 2   \* page size

\* the name and the address of the i-th mountain: "a", "b", "c", ... (distinct,
\* in ascending order) and "z" or "a"
NameOf(i) == <<96 + i>>
AddressOf(i) == IF i % 2 = 1 THEN <<122>> ELSE <<LOWER_A>>

\* the mountains table: which of the rows exist, with their region and altitude
Tables ==
    [1..MaxRows -> {Null} \cup {<<m>> : m \in [region : {"r1", "r2"},
                                               altitude : {800, 1200}]}]

\* the filters object handed to getMountains: the fields of MountainFilters
\* and an altitude criterion (a minimum), which MountainFilters does not
\* declare and which a caller can only pass as an extra property
FilterInputs ==
    [search : {<<>>, <<UPPER_A>>}, region : {Null, <<"r1">>, <<"r2">>},
     difficulty : {Null}, timeCategory : {Null}, altitude : {Null, <<1000>>}]

\* column.ilike.%search% for a search term without % and _
ILike(column, search) == StringIncludes(ToLowerCase(column), ToLowerCase(search))

\* the rows the query selects, in ascending order of name: the search filter
\* (name or address) and the region filter are applied, nothing else
SelectedRows(table, filters) ==
    LET keep(i) ==
            /\ table[i] # Null
            /\ filters.search # <<>> =>
                  ILike(NameOf(i), filters.search) \/ ILike(AddressOf(i), filters.search)
            /\ filters.region # Null => table[i][1].region = filters.region[1]
    IN  SelectSeq([i \in 1..MaxRows |-> i], keep)

\* as MathCeil, had the page count been rounded down
MathCeil_Floor(count, limit) == count \div limit

\* Math.ceil(count / limit) for count >= 0 and limit > 0
MathCeil(count, limit) ==
    IF count % limit = 0 THEN count \div limit ELSE (count \div limit) + 1

\* query.range(from, to): the rows at offsets from..to of the selected rows
RangeOf(rows, from, to) ==
    SubSeq(rows, from + 1, IF to + 1 < Len(rows) THEN to + 1 ELSE Len(rows))

\* what getMountains resolves to (from and to are kept to state the claims)
getMountains(table, page, limit, filters) ==
    LET rows == SelectedRows(table, filters)
        from == (page - 1) * limit
        to == from + limit - 1
    IN  [data |-> RangeOf(rows, from, to),
         count |-> Len(rows),
         page |-> page,
         totalPages |-> MathCeil(Len(rows), limit),
         from |-> from, to |-> to]

\* getNextPageParam of useInfiniteMountains: 0 stands for undefined
getNextPageParam(lastPage) ==
    IF lastPage.page < lastPage.totalPages THEN lastPage.page + 1 ELSE 0

\* hasNextPage of the infinite query
hasNextPage(pages) == pages # <<>> /\ getNextPageParam(pages[Len(pages)]) # 0

InitList ==
    /\ call \in [fn : {"useInfiniteMountains"}, table : Tables, filters : FilterInputs,
                 limit : 1..MaxLimit, pages : {<<>>}, failed : {FALSE}]
    /\ ComponentIdle

\* the query's first fetch: queryFn({ pageParam: 1 }) resolves
FetchFirstPage ==
    /\ call.fn = "useInfiniteMountains"
    /\ call.pages = <<>>
    /\ call' = [call EXCEPT
                  !.pages = <<getMountains(call.table, 1, call.limit, call.filters)>>,
                  !.failed = FALSE]
    /\ UNCHANGED componentVars

\* fetchNextPage(): queryFn({ pageParam: getNextPageParam(lastPage) }) resolves
FetchNextPage ==
    /\ call.fn = "useInfiniteMountains"
    /\ hasNextPage(call.pages)
    /\ call' = [call EXCEPT
                  !.pages = Append(call.pages,
                                   getMountains(call.table,
                                                getNextPageParam(call.pages[Len(call.pages)]),
                                                call.limit, call.filters)),
                  !.failed = FALSE]
    /\ UNCHANGED componentVars

\* the request fails: getMountains throws and the query keeps its pages
FetchFails ==
    /\ call.fn = "useInfiniteMountains"
    /\ call.pages = <<>> \/ hasNextPage(call.pages)
    /\ ~call.failed
    /\ call' = [call EXCEPT !.failed = TRUE]
    /\ UNCHANGED componentVars

NextList ==
    \/ FetchFirstPage
    \/ FetchNextPage
    \/ FetchFails

SpecList == InitList /\ [][NextList]_vars

---------------------------------------------------------------------------
(* The filter store of the mountain list (zustand): the state { filters,   *)
(* page } and its setters, called in any order with arguments drawn from   *)
(* small sets.  Each action is one set(...) call.                          *)

MaxPage == 3    \* the page numbers passed to setPage

\* const initialFilters
initialFilters ==
    [search |-> <<>>, region |-> Null, difficulty |-> Null, timeCategory |-> Null]

SearchInputs == {<<>>, <<LOWER_A>>}
RegionInputs == {Null, <<"r1">>, <<"r2">>}
DifficultyInputs == {Null, <<"easy">>, <<"hard">>}
TimeCategoryInputs == {Null, <<"short">>}

\* create<FilterState>(...): filters: initialFilters, page: 1
InitStore ==
    /\ call = [fn |-> "useFilterStore", filters |-> initialFilters, page |-> 1,
               op |-> "create", arg |-> Null]
    /\ ComponentIdle

\* set(partial): zustand merges the partial state into the store's state
StoreSet(filters, page, op, arg) ==
    /\ call.fn = "useFilterStore"
    /\ call' = [call EXCEPT !.filters = filters, !.page = page,
                            !.op = op, !.arg = arg]
    /\ UNCHANGED componentVars

\* as setSearch, had the new filters been spread from initialFilters
setSearch_FromInitial(search) ==
    StoreSet([initialFilters EXCEPT !.search = search], 1, "setSearch", search)

setSearch(search) ==
    StoreSet([call.filters EXCEPT !.search = search], 1, "setSearch", search)

setRegion(region) ==
    StoreSet([call.filters EXCEPT !.region = region], 1, "setRegion", region)

setDifficulty(difficulty) ==
    StoreSet([call.filters EXCEPT !.difficulty = difficulty], 1, "setDifficulty",
             difficulty)

setTimeCategory(timeCategory) ==
    StoreSet([call.filters EXCEPT !.timeCategory = timeCategory], 1,
             "setTimeCategory", timeCategory)

setPage(page) == StoreSet(call.filters, page, "setPage", <<page>>)

resetFilters == StoreSet(initialFilters, 1, "resetFilters", Null)

NextStore ==
    \/ \E search \in SearchInputs : setSearch(search)
    \/ \E region \in RegionInputs : setRegion(region)
    \/ \E difficulty \in DifficultyInputs : setDifficulty(difficulty)
    \/ \E timeCategory \in TimeCategoryInputs : setTimeCategory(timeCategory)
    \/ \E page \in 1..MaxPage : setPage(page)
    \/ resetFilters

SpecStore == InitStore /\ [][NextStore]_vars
---------------------------------------------------------------------------
(* Properties.  Helper notions are stated declaratively, without the       *)
(* operators that model the code's loops.                                  *)

Range(arr) == {arr[i] : i \in 1..Len(arr)}

\* two code units are the same letter up to ASCII case
SameLetter(c, d) ==
    \/ c = d
    \/ c \in 65..90 /\ d = c + 32
    \/ d \in 65..90 /\ c = d + 32

\* k occurs in t at some offset, compared case-insensitively
OccursIgnoringCase(k, t) ==
    \E o \in 0..Len(t) :
        /\ o + Len(k) <= Len(t)
        /\ \A i \in 1..Len(k) : SameLetter(k[i], t[o + i])

\* k occurs in t at some offset
Occurs(k, t) ==
    \E o \in 0..Len(t) :
        /\ o + Len(k) <= Len(t)
        /\ \A i \in 1..Len(k) : k[i] = t[o + i]

MatchDone == call.fn = "matchesCertPoint" /\ call.done
KeywordsDone == call.fn = "extractCertKeywords" /\ call.done

SameArguments(c, d) ==
    /\ c.courseName = d.courseName
    /\ c.detail = d.detail
    /\ c.keywords = d.keywords

\* C1: for a non-empty keyword list, matchesCertPoint returns true exactly
\* when some keyword occurs, ignoring case, in the course name, a separator
\* and the course detail put together; the two examples of the specification
\* give true and false.
C1_MatchesIffKeywordOccurs ==
    MatchDone =>
        /\ call.keywords # <<>> =>
              (call.ret <=>
                  \E kw \in Range(call.keywords) :
                      OccursIgnoringCase(kw, call.courseName \o <<SP>> \o call.detail))
        /\ SameArguments(call, ExampleMatch) => call.ret = TRUE
        /\ SameArguments(call, ExampleNoMatch) => call.ret = FALSE

\* an upper-case keyword matched a lower-case course name
C1_Witness ==
    /\ MatchDone
    /\ call.keywords = <<<<UPPER_A>>>>
    /\ call.courseName = <<LOWER_A>>
    /\ call.detail = <<>>
    /\ call.ret = TRUE

\* for the absent and the empty label every course of every course list matches
AllMatchWithoutLabel ==
    \A certPoint \in {Undefined, Some(<<>>)}, features \in FeatureLists :
        matchingIndices(features, extractCertKeywords(certPoint))
            = 0..(Len(features) - 1)

\* C2: with an empty keyword list matchesCertPoint returns true, so for an
\* absent or empty certification label every course of every course list
\* is reported as matching.
C2_FailOpenOnEmptyKeywords ==
    /\ MatchDone /\ call.keywords = <<>> => call.ret = TRUE
    /\ AllMatchWithoutLabel

C2_Witness ==
    /\ MatchDone
    /\ call.keywords = <<>>
    /\ call.courseName = <<LOWER_A>>
    /\ call.ret = TRUE

AbsentOrEmpty(certPoint) == certPoint = <<>> \/ certPoint = <<<<>>>>

\* C6: extractCertKeywords returns no keyword for the absent label and for
\* the empty string.
C6_EmptyForAbsentOrEmptyLabel ==
    KeywordsDone /\ AbsentOrEmpty(call.certPoint) => call.ret = <<>>

C6_Witness ==
    /\ KeywordsDone
    /\ call.certPoint = <<<<>>>>
    /\ call.ret = <<>>

\* C7: for every non-empty label the keywords returned contain "정상"; no
\* keyword is returned only for the absent or empty label.
C7_SummitKeywordAlwaysPresent ==
    KeywordsDone =>
        /\ ~AbsentOrEmpty(call.certPoint) => <<H_JEONG, H_SANG>> \in Range(call.ret)
        /\ call.ret = <<>> => AbsentOrEmpty(call.certPoint)

\* a label made of separators and boilerplate only: "/ 인증"
C7_Witness ==
    /\ KeywordsDone
    /\ call.certPoint = <<<<SLASH, SP, H_IN, H_JEUNG>>>>
    /\ call.ret = <<<<H_JEONG, H_SANG>>>>

\* the positions (1-based) of label covered by an occurrence of a boilerplate word
Covered(label, i) ==
    \E w \in {<<H_JEONG, H_SANG, H_SEOK>>, <<SLASH>>, <<H_IN, H_JEUNG>>} :
        \E o \in 0..Len(label) :
            /\ o < i /\ i <= o + Len(w)
            /\ o + Len(w) <= Len(label)
            /\ \A j \in 1..Len(w) : label[o + j] = w[j]

\* whitespace, comma or slash, or part of a boilerplate word
Breaks(label, i) ==
    \/ Covered(label, i)
    \/ label[i] \in {9, 10, 11, 12, 13, 32, 44, 47, 160, 12288}

\* the tokens of a label: the maximal runs of positions that do not break
TokensOf(label) ==
    {SubSeq(label, i, j) : <<i, j>> \in
        {ij \in (1..Len(label)) \X (1..Len(label)) :
            /\ ij[1] <= ij[2]
            /\ \A k \in ij[1]..ij[2] : ~Breaks(label, k)
            /\ ij[1] = 1 \/ Breaks(label, ij[1] - 1)
            /\ ij[2] = Len(label) \/ Breaks(label, ij[2] + 1)}}

WithoutLast(t) == SubSeq(t, 1, Len(t) - 1)

\* what C8 says the keywords of a non-empty label are
ExpectedKeywords(label) ==
    LET base == {t \in TokensOf(label) : Len(t) >= 2}
    IN  base
          \cup {WithoutLast(t) : t \in
                  {u \in base : Len(u) >= 3 /\ u[Len(u)] \in {H_BONG, H_SAN, H_DAE}}}
          \cup {<<H_JEONG, H_SANG>>}

\* C8: the keywords of a non-empty label are exactly its tokens of length
\* >= 2, each such token of length >= 3 ending in 봉, 산 or 대 without its
\* last character, and "정상"; "노인봉" yields 노인봉 and 노인, "지리산 천왕봉"
\* yields 천왕봉, 천왕 and 정상.
C8_SuffixExpansion ==
    KeywordsDone /\ ~AbsentOrEmpty(call.certPoint) =>
        /\ Range(call.ret) = ExpectedKeywords(call.certPoint[1])
        /\ call.certPoint[1] = LabelNoinbong =>
              {LabelNoinbong, <<45432, H_IN>>} \subseteq Range(call.ret)
        /\ call.certPoint[1] = LabelJirisan =>
              {LabelCheonwangbong, <<H_CHEON, H_WANG>>, <<H_JEONG, H_SANG>>}
                  \subseteq Range(call.ret)

C8_Witness ==
    /\ KeywordsDone
    /\ call.certPoint = <<LabelJirisan>>
    /\ <<H_CHEON, H_WANG>> \in Range(call.ret)
    /\ <<51648, 47532>> \in Range(call.ret)

\* C9: every keyword returned has length >= 2 and contains no whitespace,
\* comma or slash.
C9_KeywordsTrimmedMinLength ==
    KeywordsDone =>
        \A kw \in Range(call.ret) :
            /\ Len(kw) >= 2
            /\ \A i \in 1..Len(kw) :
                  kw[i] \notin {9, 10, 11, 12, 13, 32, 44, 47, 160, 12288}

\* one-character tokens between separators are dropped: "천,봉 산" yields only 정상
C9_Witness ==
    /\ KeywordsDone
    /\ call.certPoint = <<<<H_CHEON, COMMA, H_BONG, SP>>>>
    /\ call.ret = <<<<H_JEONG, H_SANG>>>>

\* C10: no boilerplate word ("정상석", "/", "인증") is left in the cleaned
\* label, and none occurs in a keyword returned.
C10_BoilerplateRemoved ==
    KeywordsDone /\ ~AbsentOrEmpty(call.certPoint) =>
        \A w \in {<<H_JEONG, H_SANG, H_SEOK>>, <<SLASH>>, <<H_IN, H_JEUNG>>} :
            /\ ~Occurs(w, CleanLabel(call.certPoint[1]))
            /\ \A kw \in Range(call.ret) : ~Occurs(w, kw)

\* "인증인증": both occurrences are replaced
C10_Witness ==
    /\ KeywordsDone
    /\ call.certPoint = <<<<H_IN, H_JEUNG, H_IN, H_JEUNG>>>>
    /\ call.ret = <<<<H_JEONG, H_SANG>>>>

---------------------------------------------------------------------------
(* Properties of the TrailMap component.                                   *)

\* the label the run that last wrote the state was started with
LoadedLabel == runs[last.run].certificationPoint

\* the courses of the displayed data that match the keywords of a label
MatchingFor(certificationPoint) ==
    {idx \in 0..(Len(Features) - 1) :
        LET p == Features[idx + 1]
        IN  matchesCertPoint(OrEmpty(p.name), OrEmpty(p.detail),
                             extractCertKeywords(certificationPoint))}

JustLoaded == last.op = "npLoaded"

\* C3: right after a run has loaded national-park data, if some course
\* matches the keywords of the run's label, the selected set is exactly the
\* set of indices of the matching courses.
C3_DefaultSelectionIsMatching ==
    JustLoaded /\ MatchingFor(LoadedLabel) # {} =>
        selectedCourses = MatchingFor(LoadedLabel)

\* a load after which one course is selected and another is not
C3_Witness ==
    /\ JustLoaded
    /\ Len(Features) = 2
    /\ MatchingFor(LoadedLabel) = {1}
    /\ selectedCourses = {1}

\* C4: right after a run has loaded national-park data, if no course
\* matches the (non-empty) keywords of the run's label, every course index
\* is selected; whenever the national-park map is displayed, the advisory is
\* shown exactly when the displayed label has keywords and no displayed
\* course matches them; so when the map is displayed right after a load
\* whose label is the displayed one and matches no course, all courses are
\* selected and the advisory is shown.
C4_ZeroMatchFallback ==
    /\ JustLoaded /\ extractCertKeywords(LoadedLabel) # <<>>
           /\ MatchingFor(LoadedLabel) = {}
         => selectedCourses = 0..(Len(Features) - 1)
    /\ View = "national_park" =>
          (AdvisoryShown <=>
              /\ extractCertKeywords(props.certificationPoint) # <<>>
              /\ MatchingFor(props.certificationPoint) = {})
    /\ JustLoaded /\ LoadedLabel = props.certificationPoint
           /\ extractCertKeywords(LoadedLabel) # <<>>
           /\ MatchingFor(LoadedLabel) = {}
           /\ View = "national_park"
         => /\ selectedCourses = 0..(Len(Features) - 1)
            /\ AdvisoryShown

\* two courses loaded for "노인봉", neither matching: both selected, advisory shown
C4_Witness ==
    /\ JustLoaded
    /\ LoadedLabel = <<LabelNoinbong>>
    /\ props.certificationPoint = <<LabelNoinbong>>
    /\ Len(Features) = 2
    /\ MatchingFor(LoadedLabel) = {}
    /\ selectedCourses = {0, 1}
    /\ AdvisoryShown

\* the displayed courses that do not match the displayed label
NonMatching == (0..(Len(Features) - 1)) \ MatchingFor(props.certificationPoint)

\* the national-park map is displayed, some course matches and some does not
MixedView ==
    /\ View = "national_park"
    /\ MatchingFor(props.certificationPoint) # {}
    /\ NonMatching # {}

\* C5 as stated: in a mixed view some user action is on offer after which
\* a non-matching course is visible or selected.
C5_ShowAllOffered ==
    MixedView /\ selectedCourses \cap NonMatching = {} =>
        \/ \E idx \in NonMatching : ChipVisible(idx)
        \/ \E idx \in AllIndices(Features) :
              CanToggle(idx) /\ toggleCourse(selectedCourses, idx) \cap NonMatching # {}
        \/ CanSelectAll /\ selectAllCourses \cap NonMatching # {}

\* C5 as amended: in a mixed view no chip is rendered for a non-matching
\* course, select-all and clear-all are not on offer, and toggling a chip
\* that is on offer does not change whether a non-matching course is
\* selected.
C5_NonMatchingStayHidden ==
    MixedView =>
        /\ \A idx \in NonMatching : ~ChipVisible(idx)
        /\ ~CanSelectAll
        /\ \A idx \in AllIndices(Features) :
              CanToggle(idx) =>
                  toggleCourse(selectedCourses, idx) \cap NonMatching
                      = selectedCourses \cap NonMatching

\* a chip was toggled in a mixed view and the non-matching course is still unselected
C5_Witness ==
    /\ MixedView
    /\ last.op = "toggleCourse"
    /\ NonMatching = {1}
    /\ selectedCourses = {}

---------------------------------------------------------------------------
(* Properties of the two functions applied one after the other.            *)

PipeDone == call.fn = "pipeline" /\ call.pc = "done"

\* some keyword occurs, ignoring case, inside the name or inside the detail
OccursInNameOrDetail(keywords, courseName, detail) ==
    \E kw \in Range(keywords) :
        OccursIgnoringCase(kw, courseName) \/ OccursIgnoringCase(kw, detail)

\* C11 as stated: for every keyword list extracted from a label, also the
\* empty one, the course matches exactly when some keyword occurs inside
\* the name alone or inside the detail alone.
C11_MatchesIffWithinNameOrDetail ==
    PipeDone =>
        (call.ret <=> OccursInNameOrDetail(call.keywords, call.courseName, call.detail))

\* C11 as amended: for every non-empty keyword list extracted from a label
\* the course matches exactly when some keyword occurs, ignoring case,
\* inside the name alone or inside the detail alone, so no keyword matches
\* only across the boundary; for the empty keyword list (absent or empty
\* label) the course matches although no keyword occurs.
C11_NonEmptyMatchesIffWithinNameOrDetail ==
    PipeDone =>
        /\ call.keywords # <<>> =>
              (call.ret <=>
                  OccursInNameOrDetail(call.keywords, call.courseName, call.detail))
        /\ call.keywords = <<>> => call.ret = TRUE

\* label "Ab", name "a", detail "b": the keyword would occur only across the boundary
C11_Witness ==
    /\ PipeDone
    /\ call.certPoint = <<<<UPPER_A, 98>>>>
    /\ <<UPPER_A, 98>> \in Range(call.keywords)
    /\ call.courseName = <<LOWER_A>>
    /\ call.detail = <<98>>
    /\ call.ret = FALSE

PipeExtracted == call.fn = "pipeline" /\ call.pc \in {"match", "done"}

\* C16: the keyword list extracted from a label never holds the same keyword
\* twice, and the result of matchesCertPoint is the same in whatever order
\* the keywords are handed to it: it is decided by the set of keywords.
C16_KeywordsBehaveAsSet ==
    /\ PipeExtracted =>
          \A i, j \in 1..Len(call.keywords) :
              call.keywords[i] = call.keywords[j] => i = j
    /\ PipeDone =>
          /\ Range(call.passed) = Range(call.keywords)
          /\ call.ret <=>
                \/ Range(call.keywords) = {}
                \/ \E kw \in Range(call.keywords) :
                      OccursIgnoringCase(kw, call.courseName \o <<SP>> \o call.detail)

\* "천왕봉 천왕": 천왕 is added once; matched in reverse order against "천왕 코스"
C16_Witness ==
    /\ PipeDone
    /\ call.certPoint = <<LabelVariantAgain>>
    /\ call.keywords = <<LabelCheonwangbong, <<H_CHEON, H_WANG>>, <<H_JEONG, H_SANG>>>>
    /\ call.passed = <<<<H_JEONG, H_SANG>>, <<H_CHEON, H_WANG>>, LabelCheonwangbong>>
    /\ call.courseName = OrEmpty(CourseCheonwang.name)
    /\ call.ret = TRUE

---------------------------------------------------------------------------
(* Further properties of the TrailMap component.                           *)

\* the selection that a label calls for on the displayed courses
SelectionFor(certificationPoint) ==
    IF MatchingFor(certificationPoint) # {}
    THEN MatchingFor(certificationPoint)
    ELSE 0..(Len(Features) - 1)

\* C12: the selected set right after a national-park load is determined by
\* the loading run's label and the loaded courses alone, whatever was
\* selected before (by an earlier load, by toggles, by select-all or
\* clear-all): it is the matching indices, or all indices if none matches.
C12_SelectionIndependentOfPrevious ==
    JustLoaded => selectedCourses = SelectionFor(LoadedLabel)

\* the first run loads "둘레길", "천왕 코스" for 천왕봉 after the second run, started
\* without a label, had loaded national-park data and installed its selection
C12_Witness ==
    /\ JustLoaded
    /\ last.run = 1
    /\ Len(runs) = 2
    /\ runs[2].pc = "done"
    /\ runs[2].certificationPoint = Undefined
    /\ trailData = Null
    /\ error = Null
    /\ LoadedLabel = <<LabelCheonwangbong>>
    /\ Features = <<CourseLoop, CourseCheonwang>>
    /\ selectedCourses = {1}

\* C13: for label "서석대 정상석/ 인왕봉 정상석" and the courses 서석대코스, 인왕봉코스,
\* 기타코스 with empty details, right after the load the first two courses
\* are selected and the third is not; when the map is displayed for that
\* label, the chips of the first two are rendered, the third is hidden and
\* the advisory is not shown.
C13_SeoseokdaeEndToEnd ==
    /\ JustLoaded /\ LoadedLabel = <<LabelSeoseokdae>> /\ Features = CoursesSeoseokdae
         => /\ selectedCourses = {0, 1}
            /\ Drawn(0) /\ Drawn(1) /\ ~Drawn(2)
    /\ View = "national_park" /\ props.certificationPoint = <<LabelSeoseokdae>>
           /\ Features = CoursesSeoseokdae
         => /\ ChipVisible(0) /\ ChipVisible(1) /\ ~ChipVisible(2)
            /\ HiddenNoteShown
            /\ ~AdvisoryShown

C13_Witness ==
    /\ JustLoaded
    /\ LoadedLabel = <<LabelSeoseokdae>>
    /\ props.certificationPoint = <<LabelSeoseokdae>>
    /\ Features = CoursesSeoseokdae
    /\ View = "national_park"
    /\ selectedCourses = {0, 1}
    /\ ~ChipVisible(2)
    /\ ~AdvisoryShown

\* no course of the displayed list contains 미상봉, 미상 or 정상 in its name or detail
NoneMentionsMisang ==
    \A i \in 1..Len(Features) :
        \A kw \in {LabelMisangbong, <<48120, H_SANG>>, <<H_JEONG, H_SANG>>} :
            /\ ~Occurs(kw, OrEmpty(Features[i].name))
            /\ ~Occurs(kw, OrEmpty(Features[i].detail))

\* C14: for label "미상봉" and a non-empty course list none of whose names or
\* details contains 미상봉, 미상 or 정상, right after the load every course is
\* selected; when the map is displayed for that label, the advisory is shown.
C14_MisangbongZeroMatch ==
    /\ JustLoaded /\ LoadedLabel = <<LabelMisangbong>> /\ NoneMentionsMisang
         => /\ Features # <<>>
            /\ selectedCourses = 0..(Len(Features) - 1)
    /\ View = "national_park" /\ props.certificationPoint = <<LabelMisangbong>>
           /\ NoneMentionsMisang
         => AdvisoryShown

C14_Witness ==
    /\ JustLoaded
    /\ LoadedLabel = <<LabelMisangbong>>
    /\ props.certificationPoint = <<LabelMisangbong>>
    /\ Features = <<CourseLoop, CourseCheonwang>>
    /\ View = "national_park"
    /\ selectedCourses = {0, 1}
    /\ AdvisoryShown

\* the step taken is a step of a fetchTrailData run, of the given kind
RunStep(op) == last'.op = op /\ runs' # runs

---------------------------------------------------------------------------
(* The examples of the comment above extractCertKeywords.                  *)

\* C18: the keywords extracted from "지리산 천왕봉" are exactly 천왕봉 and 천왕, and
\* those extracted from "서석대 정상석/ 인왕봉 정상석" are exactly 서석대, 인왕봉 and
\* 인왕.
C18_DocCommentKeywords ==
    KeywordsDone =>
        /\ call.certPoint = <<LabelJirisan>> =>
              Range(call.ret) = {LabelCheonwangbong, <<H_CHEON, H_WANG>>}
        /\ call.certPoint = <<LabelSeoseokdae>> =>
              Range(call.ret) =
                  {<<49436, H_SEOK, H_DAE>>, <<H_IN, H_WANG, H_BONG>>, <<H_IN, H_WANG>>}

---------------------------------------------------------------------------
(* Properties of the mountain list.                                        *)

ListQuery == call.fn = "useInfiniteMountains"

\* C17: every mountain that getMountains returns satisfies the selected
\* region filter and the selected altitude filter.
C17_RegionAndAltitudeFiltered ==
    ListQuery =>
        \A p \in 1..Len(call.pages) :
            \A k \in 1..Len(call.pages[p].data) :
                LET row == call.table[call.pages[p].data[k]][1]
                IN  /\ call.filters.region # Null =>
                          row.region = call.filters.region[1]
                    /\ call.filters.altitude # Null =>
                          row.altitude >= call.filters.altitude[1]

\* the rows of all pages fetched so far, in the order fetched
RECURSIVE AllData(_)
AllData(pages) ==
    IF pages = <<>> THEN <<>> ELSE Head(pages).data \o AllData(Tail(pages))

\* C20: the i-th page fetched is page i and asks for the offsets
\* (i-1)*limit .. i*limit-1, each following the previous one without gap or
\* overlap; it returns the selected rows at those offsets below count;
\* totalPages is the least number of pages of that size holding count rows;
\* a next page is offered exactly while offsets below count remain; and
\* when none is offered any more the pages fetched are 1..totalPages (page 1
\* alone when count is 0) and hold every selected row once, in order.
C20_OffsetPagination ==
    ListQuery =>
        LET pages == call.pages
            n == Len(pages)
            limit == call.limit
            rows == SelectedRows(call.table, call.filters)
            count == Len(rows)
        IN  /\ \A i \in 1..n :
                  /\ pages[i].page = i
                  /\ pages[i].count = count
                  /\ pages[i].from = (i - 1) * limit
                  /\ pages[i].to + 1 = i * limit
                  /\ i > 1 => pages[i].from = pages[i - 1].to + 1
                  /\ pages[i].totalPages * limit >= count
                  /\ pages[i].totalPages * limit < count + limit
                  /\ Len(pages[i].data) =
                        Cardinality({o \in 0..(count - 1) :
                                        pages[i].from <= o /\ o <= pages[i].to})
                  /\ \A k \in 1..Len(pages[i].data) :
                        pages[i].data[k] = rows[pages[i].from + k]
            /\ n > 0 => (hasNextPage(pages) <=> n * limit < count)
            /\ n > 0 /\ ~hasNextPage(pages) =>
                  /\ n = IF count = 0 THEN 1 ELSE pages[n].totalPages
                  /\ AllData(pages) = rows

\* three rows in pages of two: the second page is the last and holds one row
C20_Witness ==
    /\ ListQuery
    /\ call.limit = 2
    /\ Len(call.pages) = 2
    /\ call.pages[1].count = 3
    /\ call.pages[2].totalPages = 2
    /\ Len(call.pages[2].data) = 1
    /\ ~hasNextPage(call.pages)


---------------------------------------------------------------------------
(* The selected set under the user's clicks.                               *)

\* a click on a chip has been handled by this step
ToggleStep == last'.op = "toggleCourse" /\ vars' # vars

\* the indices whose membership differs between the two sets
Flipped(before, after) == (before \ after) \cup (after \ before)

\* C21: a click on the chip of course i flips the membership of i in the
\* selected set and of no other index, and changes nothing else of what is
\* displayed, so that a second click on the same chip gives back the set
\* from before the first click.
C21_ToggleFlipsOneIndex ==
    [][ToggleStep =>
          \E i \in AllIndices(Features) :
              /\ CanToggle(i)
              /\ Flipped(selectedCourses, selectedCourses') = {i}
              /\ toggleCourse(selectedCourses', i) = selectedCourses
              /\ UNCHANGED <<props, npTrailData, trailData, dataSource,
                             loading, error>>]_vars

\* a click has removed one of several courses from the default selection
C21_Witness ==
    /\ last.op = "toggleCourse"
    /\ View = "national_park"
    /\ Len(Features) > 1
    /\ Cardinality(Flipped(selectedCourses, SelectionFor(props.certificationPoint))) = 1
    /\ selectedCourses # {}


\* C22: while the national-park map is displayed and at least one of its
\* courses matches the displayed label, every selected index is a matching
\* index, so no non-matching course is selected or drawn.
C22_SelectedWithinMatching ==
    View = "national_park" /\ matchingCount > 0
        => /\ selectedCourses \subseteq courseMatches
           /\ \A idx \in AllIndices(Features) : Drawn(idx) => idx \in courseMatches

---------------------------------------------------------------------------
(* Overlapping fetchTrailData runs.                                        *)

\* every started run has returned
AllRunsDone == \A r \in 1..Len(runs) : runs[r].pc = "done"

\* the most recently started run
LatestRun == Len(runs)

\* C23: once all runs have completed, the trail data on screen was produced
\* by the most recently started run: the forest-service data displayed
\* carries that run's number, and a national-park load that was the last
\* thing to happen was that run's.
C23_LatestRequestWins ==
    AllRunsDone
        => /\ View = "forest_service" => trailData[1].run = LatestRun
           /\ View = "national_park" /\ last.op = "npLoaded" => last.run = LatestRun

\* the most recently started run has completed with data
LatestLoaded ==
    /\ runs[LatestRun].pc = "done"
    /\ \/ trailData # Null /\ trailData[1].run = LatestRun
       \/ last.op = "npLoaded" /\ last.run = LatestRun

\* C24: once all runs have completed and the most recently started one has
\* completed with data, the error view is not what the component renders.
C24_NoStaleError ==
    AllRunsDone /\ LatestLoaded => View # "error"

\* C26: in every state, data source 'national_park' comes with national-park
\* data and 'forest_service' with trail data, and the final `return null` is
\* never the branch that renders.
C26_DataSourceHasItsData ==
    /\ dataSource = "national_park" => npTrailData # Null
    /\ dataSource = "forest_service" => trailData # Null
    /\ View # "null"

\* two overlapping runs have completed, one with national-park data and the
\* other with trail data, and a map is rendered
C26_Witness ==
    /\ Len(runs) > 1
    /\ AllRunsDone
    /\ npTrailData # Null
    /\ trailData # Null
    /\ View \in {"national_park", "forest_service"}

\* C27: while the national-park map is displayed, every selected index is
\* an index of the displayed course list.
C27_SelectedAreValidIndices ==
    View = "national_park" => selectedCourses \subseteq AllIndices(Features)

\* a later run has loaded a one-course list over an earlier selection, and
\* the user has toggled its chip since
C27_Witness ==
    /\ View = "national_park"
    /\ Len(runs) > 1
    /\ AllRunsDone
    /\ Len(Features) = 1
    /\ last.op = "toggleCourse"
    /\ selectedCourses = {0}


---------------------------------------------------------------------------
(* The end of loading.                                                     *)

\* run r returns in this step
RunReturns(r) == runs[r].pc # "done" /\ runs'[r].pc = "done"

\* C25: provided every network request eventually settles, every started
\* fetchTrailData run eventually returns, the step in which it returns sets
\* loading to false whichever path it took, and the component is not in the
\* loading view once all its runs have returned.
C25_LoadingEnds ==
    /\ \A r \in 1..MaxRuns :
          (r \in 1..Len(runs)) ~> (r \in 1..Len(runs) /\ runs[r].pc = "done")
    /\ [][\A r \in 1..Len(runs) : RunReturns(r) => loading' = FALSE]_vars
    /\ [](AllRunsDone => ~loading)

\* the last of several runs has returned on the failure path and the
\* loading view is gone
C25_Witness ==
    /\ Len(runs) > 1
    /\ AllRunsDone
    /\ last.op = "trailFailed"
    /\ last.run = LatestRun
    /\ View = "error"

---------------------------------------------------------------------------
(* Labels without base keyword.                                            *)

\* no token of the label has two or more characters
NoBaseKeyword(label) == {t \in TokensOf(label) : Len(t) >= 2} = {}

\* C28: a non-empty label without base keyword (boilerplate, separators,
\* whitespace or one-character tokens only) yields the one keyword "정상",
\* and a course then matches exactly when its name or its detail contains
\* "정상".
C28_SummitOnlyKeyword ==
    PipeDone /\ ~IsFalsy(call.certPoint) /\ NoBaseKeyword(call.certPoint[1])
        => /\ call.keywords = <<SummitKeyword>>
           /\ call.ret <=> \/ Occurs(<<H_JEONG, H_SANG>>, call.courseName)
                           \/ Occurs(<<H_JEONG, H_SANG>>, call.detail)

\* "정상석 / 인증" against the course whose detail is "지리산 정상 등반로"
C28_Witness ==
    /\ PipeDone
    /\ call.certPoint = Some(LabelBoilerplate)
    /\ call.detail = OrEmpty(CourseSummit.detail)
    /\ call.keywords = <<SummitKeyword>>
    /\ call.ret = TRUE

---------------------------------------------------------------------------
(* The filter store.                                                       *)

StoreCall == call.fn = "useFilterStore"

\* the filter fields other than field f are the same before and after
OthersKept(f) ==
    \A g \in {"search", "region", "difficulty", "timeCategory"} \ {f} :
        call'.filters[g] = call.filters[g]

\* the step is a call of the setter op
SetterStep(op) == StoreCall /\ call'.op = op

\* C29: setSearch, setRegion, setDifficulty and setTimeCategory each put
\* their argument into their own filter field, leave the other three filter
\* fields as they were and set page to 1; setPage sets page to its argument
\* and leaves all four filter fields as they were.
C29_SettersFrame ==
    [][/\ SetterStep("setSearch") =>
             call'.filters.search = call'.arg /\ OthersKept("search") /\ call'.page = 1
       /\ SetterStep("setRegion") =>
             call'.filters.region = call'.arg /\ OthersKept("region") /\ call'.page = 1
       /\ SetterStep("setDifficulty") =>
             /\ call'.filters.difficulty = call'.arg
             /\ OthersKept("difficulty") /\ call'.page = 1
       /\ SetterStep("setTimeCategory") =>
             /\ call'.filters.timeCategory = call'.arg
             /\ OthersKept("timeCategory") /\ call'.page = 1
       /\ SetterStep("setPage") =>
             call'.page = call'.arg[1] /\ call'.filters = call.filters]_vars

\* setSearch has been called while the other three filters were set
C29_Witness ==
    /\ StoreCall
    /\ call.op = "setSearch"
    /\ call.filters.search = <<LOWER_A>>
    /\ call.filters.region # Null
    /\ call.filters.difficulty # Null
    /\ call.filters.timeCategory # Null
    /\ call.page = 1
====
